---- MODULE Spec2Model ----
(***************************************************************************)
(* Usage metering, entitlement and billing of ColdCopy.                    *)
(*                                                                         *)
(* State: the MemStorage maps (users, messages, id counters), the express  *)
(* sessions (userId, anonymousMessagesUsed), the in-flight HTTP requests   *)
(* (one record per request, with its position in the handler) and the      *)
(* Stripe webhook handler.  A request advances one step per storage call   *)
(* or external await of its handler, so that handlers interleave exactly   *)
(* where the code awaits.                                                  *)
(*                                                                         *)
(* The repository holds three versions of server/storage.ts (part_006,     *)
(* lines 1-178, 180-534 and 535-981); storageVersion says which one the    *)
(* process was built from.  Versions 2 and 3 also define HybridStorage, a   *)
(* facade over DatabaseStorage and a MemStorage of its own; its state is    *)
(* useDatabase, the rows of the database, and the probe the constructor     *)
(* starts.                                                                  *)
(***************************************************************************)
EXTENDS Integers, Sequences, FiniteSets, TLC

\* ---------------------------------------------------------------- bounds
MaxReqs == 3
MaxUid == 2
MaxSess == 1
MaxPeriod == 2
MaxSub == 1
MaxBillingReqs == 1
MaxWrites == 3
MaxCalls == 2

Reqs == 1..MaxReqs
Uids == 1..MaxUid
Sess == 1..MaxSess
Periods == 1..MaxPeriod
SubIds == 1..MaxSub
Names == {"demo", "ann"}
Versions == {1, 2, 3}
Calls == 1..MaxCalls

\* ------------------------------------------------------- program constants
SUBSCRIPTION_PLANS ==
  [trial  |-> [messagesPerMonth |-> 2],
   pro    |-> [messagesPerMonth |-> 500],
   agency |-> [messagesPerMonth |-> 5000]]

Plan == DOMAIN SUBSCRIPTION_PLANS

\* variant: the anonymous allowance read from the catalog's trial plan
AnonymousLimitOfTrial == SUBSCRIPTION_PLANS["trial"].messagesPerMonth

\* the literal 1 of `anonymousMessagesUsed >= 1` and `messagesLimit: 1`
AnonymousLimit == 1

\* messagesUsedThisMonth of the demo account seeded by storage version 1
DemoUsageV1 == 3

VARIABLES
  storageVersion,    \* which version of storage.ts is running
  users,             \* MemStorage.users: id -> User (NoUser when absent)
  currentUserId,     \* MemStorage.currentUserId
  messages,          \* MemStorage.messages: the stored messages
  session,           \* express session store: session id -> SessionData
  reqs,              \* in-flight HTTP requests
  hook,              \* the Stripe webhook handler
  response,          \* the answer of the webhook to the last event
  useDatabase,       \* HybridStorage.useDatabase
  dbStorage,         \* the users table behind DatabaseStorage
  dbUp,              \* environment: the database answers queries
  probe,             \* HybridStorage.initializeStorage: "pending" or "done"
  call,              \* history: the last call made through the facade
  dbCalls,           \* facade calls in flight on DatabaseStorage
  epoch,             \* history: increments since account creation / last paid invoice
  lastWrite          \* history: the last write applied to each account

hvars == <<useDatabase, dbStorage, dbUp, probe, call, dbCalls>>

vars == <<storageVersion, users, currentUserId, messages, session, reqs, hook,
          response, hvars, epoch, lastWrite>>

\* --------------------------------------------------------------- records
NoUser ==
  [username |-> "-", plan |-> "-", messagesUsedThisMonth |-> 0,
   subscriptionStatus |-> "-", currentPeriodEnd |-> 0,
   stripeSubscriptionId |-> 0, stripeCustomerId |-> 0]

\* currentPeriodEnd = 0, stripeSubscriptionId = 0 and stripeCustomerId = 0
\* stand for null
NewUser(name, plan, used) ==
  [username |-> name, plan |-> plan, messagesUsedThisMonth |-> used,
   subscriptionStatus |-> "active", currentPeriodEnd |-> 0,
   stripeSubscriptionId |-> 0, stripeCustomerId |-> 0]

\* unit: the request has consumed a usage unit (account or session counter)
IdleReq ==
  [pc |-> "idle", route |-> "-", sess |-> 0, uid |-> 0, name |-> "-",
   anonymousMessagesUsed |-> 0, outcome |-> "-", unit |-> FALSE]

IdleHook ==
  [pc |-> "idle", uid |-> 0, pe |-> 0, from |-> "-", wasPe |-> 0,
   replay |-> FALSE]

NoEpoch ==
  [kind |-> "none", pe |-> 0, k |-> 0, n |-> 0, between |-> 0, acct |-> NoUser]

\* was, used, wasPe: plan, counter and period end before the write
NoWrite ==
  [kind |-> "none", plan |-> "-", pe |-> 0, sub |-> 0, from |-> "-",
   was |-> "-", used |-> 0, wasPe |-> 0]

\* pc "read" / "write": waiting for the database; seen: the counter read by
\* the first query; ret: the counter value the call returns
NoDbCall ==
  [pc |-> "idle", op |-> "-", id |-> 0, seen |-> 0, routed |-> "-",
   result |-> "-", ret |-> 0]

NoResponse == [event |-> "-", status |-> 0]

\* routed: "db", "mem", or "failover" (DatabaseStorage threw and the catch
\* served the call from memStorage); result "throw": the call rejected;
\* writes, durable: successful writes so far, and those DatabaseStorage took;
\* down: the database was not answering when the call was made
NoCall ==
  [op |-> "-", id |-> 0, routed |-> "-", result |-> "-", user |-> NoUser,
   writes |-> 0, durable |-> 0, down |-> FALSE]

\* ------------------------------------------------------------ MemStorage
createDemoUser(v) ==
  IF v = 1 THEN NewUser("demo", "free", DemoUsageV1)
           ELSE NewUser("demo", "trial", 0)

\* currentUserId after the constructor: version 2 does not advance it
InitialUserId(v) == IF v = 2 THEN 1 ELSE 2

\* plan given to a new account by createUser
CreatePlan(v) == IF v = 1 THEN "free" ELSE "trial"

getUser(us, id) == IF id \in Uids THEN us[id] ELSE NoUser

Exists(us, id) == getUser(us, id) # NoUser

getUserByUsername(us, name) ==
  IF \E i \in Uids : us[i] # NoUser /\ us[i].username = name
  THEN CHOOSE i \in Uids : /\ us[i] # NoUser /\ us[i].username = name
                           /\ \A j \in Uids :
                                (us[j] # NoUser /\ us[j].username = name) => i <= j
  ELSE 0

\* variant: the spread in the other order, { ...data, ...user }
MergeUserLast(user, data) == [f \in DOMAIN user |-> user[f]]

\* { ...user, ...data }: data is a record holding the keys that are set
Merge(user, data) ==
  [f \in DOMAIN user |-> IF f \in DOMAIN data THEN data[f] ELSE user[f]]

\* variant: a subscription update also starts a new usage period
updateUserSubscriptionResets(us, id, data) ==
  [us EXCEPT ![id] = [Merge(us[id], data) EXCEPT !.messagesUsedThisMonth = 0]]

updateUserSubscription(us, id, data) ==
  [us EXCEPT ![id] = Merge(us[id], data)]

\* variant: the increment stores a fresh record with the new count
incrementMessageUsageRewrites(us, id) ==
  [us EXCEPT ![id] = NewUser(us[id].username, "trial", us[id].messagesUsedThisMonth + 1)]

incrementMessageUsage(us, id) ==
  [us EXCEPT ![id].messagesUsedThisMonth = us[id].messagesUsedThisMonth + 1]

resetMonthlyUsage(us, id) ==
  [us EXCEPT ![id].messagesUsedThisMonth = 0]

\* variant: the comparison admits the request at the limit
canUserGenerateMessageAtLimit(v, us, id) ==
  LET user == getUser(us, id) IN
  IF user = NoUser THEN "false"
  ELSE IF user.plan \notin Plan
       THEN (IF v = 2 THEN "false" ELSE "throw")
       ELSE IF user.messagesUsedThisMonth
                 <= SUBSCRIPTION_PLANS[user.plan].messagesPerMonth
            THEN "true" ELSE "false"

\* "true" / "false", or "throw" when userPlan is undefined and
\* userPlan.messagesPerMonth raises a TypeError (versions without the guard)
canUserGenerateMessage(v, us, id) ==
  LET user == getUser(us, id) IN
  IF user = NoUser THEN "false"
  ELSE IF user.plan \notin Plan
       THEN (IF v = 2 THEN "false" ELSE "throw")
       ELSE IF user.messagesUsedThisMonth
                 < SUBSCRIPTION_PLANS[user.plan].messagesPerMonth
            THEN "true" ELSE "false"

\* GET /api/user/subscription for a session: the anonymous branch, 404, or the
\* account's usage; kind "throw" when userPlan is undefined (answer 500)
NoSubscription ==
  [kind |-> "throw", messagesUsed |-> 0, messagesLimit |-> 0,
   messagesRemaining |-> 0]

subscription(us, sd) ==
  LET user == getUser(us, sd.userId) IN
  IF sd.userId = 0
  THEN [kind |-> "anonymous", messagesUsed |-> sd.anonymousMessagesUsed,
        messagesLimit |-> AnonymousLimit,
        messagesRemaining |->
          IF AnonymousLimit - sd.anonymousMessagesUsed > 0
          THEN AnonymousLimit - sd.anonymousMessagesUsed ELSE 0]
  ELSE IF user = NoUser THEN [NoSubscription EXCEPT !.kind = "not_found"]
  ELSE IF user.plan \notin Plan THEN NoSubscription
  ELSE [kind |-> "account", messagesUsed |-> user.messagesUsedThisMonth,
        messagesLimit |-> SUBSCRIPTION_PLANS[user.plan].messagesPerMonth,
        messagesRemaining |-> SUBSCRIPTION_PLANS[user.plan].messagesPerMonth
                                - user.messagesUsedThisMonth]

\* ------------------------------------------------------------------ Init
Init ==
  /\ storageVersion \in Versions
  /\ users = [i \in Uids |-> IF i = 1 THEN createDemoUser(storageVersion) ELSE NoUser]
  /\ currentUserId = InitialUserId(storageVersion)
  /\ messages = {}
  /\ session = [s \in Sess |-> [userId |-> 0, anonymousMessagesUsed |-> 0]]
  /\ reqs = [r \in Reqs |-> IdleReq]
  /\ hook = IdleHook
  /\ response = NoResponse
  /\ useDatabase = TRUE
  /\ dbStorage = [i \in Uids |-> NoUser]
  /\ dbUp = TRUE
  /\ probe = IF storageVersion = 1 THEN "none" ELSE "pending"
  /\ call = NoCall
  /\ dbCalls = [c \in Calls |-> NoDbCall]
  /\ epoch = [i \in Uids |->
                IF i = 1 /\ storageVersion # 1
                THEN [NoEpoch EXCEPT !.kind = "new"] ELSE NoEpoch]
  /\ lastWrite = [i \in Uids |-> NoWrite]


\* ------------------------------------------------------ history variables
\* a write of kind k (with its event data d) on account u
Wrote(u, k, d) ==
  lastWrite' = [lastWrite EXCEPT ![u] =
     [f \in DOMAIN NoWrite |->
        IF f = "kind" THEN k ELSE IF f \in DOMAIN d THEN d[f] ELSE NoWrite[f]]]

\* a billing event other than InvoicePaid ends the run of identical invoices
EndRun(u) ==
  epoch' = [epoch EXCEPT ![u] =
              [@ EXCEPT !.n = 0, !.pe = 0, !.between = 0, !.acct = NoUser]]

\* --------------------------------------------------------------- requests
InFlight(route) ==
  Cardinality({r \in Reqs : reqs[r].route = route /\ reqs[r].pc # "done"})

\* request slots are taken in order
Free(r) == reqs[r].pc = "idle" /\ \A q \in Reqs : q < r => reqs[q].pc # "idle"

Done(r, outcome) ==
  reqs' = [reqs EXCEPT ![r].pc = "done", ![r].outcome = outcome]

\* POST /api/generate-message, usage-tracked variant (userId = 1): the
\* entitlement check and, when it denies, the 403 answer
StartTracked(r) ==
  /\ Free(r)
  /\ LET can  == canUserGenerateMessage(storageVersion, users, 1)
         user == getUser(users, 1)
         req  == [reqs[r] EXCEPT !.route = "tracked", !.uid = 1]
     IN reqs' = [reqs EXCEPT ![r] =
          IF can = "throw" THEN [req EXCEPT !.pc = "done", !.outcome = "error"]
          ELSE IF can = "false"
               THEN (IF user # NoUser /\ user.plan \in Plan
                     THEN [req EXCEPT !.pc = "done", !.outcome = "denied_upgrade"]
                     ELSE [req EXCEPT !.pc = "done", !.outcome = "error"])
               ELSE [req EXCEPT !.pc = "generate"]]
  /\ UNCHANGED <<hvars, response, storageVersion, users, currentUserId, messages, session, hook,
                 epoch, lastWrite>>

\* POST /api/generate-message, session variant: the paywall check of the
\* authenticated flow is commented out; the anonymous flow checks the session
StartSession(r, s) ==
  /\ Free(r)
  /\ LET uid == session[s].userId
         anonymousMessagesUsed == session[s].anonymousMessagesUsed
         req == [reqs[r] EXCEPT !.route = "session", !.sess = s, !.uid = uid,
                                !.anonymousMessagesUsed = anonymousMessagesUsed]
     IN reqs' = [reqs EXCEPT ![r] =
          IF uid # 0
          THEN (IF getUser(users, uid) = NoUser
                THEN [req EXCEPT !.pc = "done", !.outcome = "not_found"]
                ELSE [req EXCEPT !.pc = "generate"])
          ELSE (IF anonymousMessagesUsed >= AnonymousLimit
                THEN [req EXCEPT !.pc = "done", !.outcome = "denied_login"]
                ELSE [req EXCEPT !.pc = "generate"])]
  /\ UNCHANGED <<hvars, response, storageVersion, users, currentUserId, messages, session, hook,
                 epoch, lastWrite>>

\* POST /api/messages/generate: FLOW 1 sets the anonymous counter before the
\* generation; FLOW 2/3 reads the user and checks the usage limit
StartFlow(r, s) ==
  /\ Free(r)
  /\ LET uid == session[s].userId
         anonymousUsed == session[s].anonymousMessagesUsed
         can == canUserGenerateMessage(storageVersion, users, uid)
         req == [reqs[r] EXCEPT !.route = "flow", !.sess = s, !.uid = uid,
                                !.anonymousMessagesUsed = anonymousUsed]
     IN IF uid = 0
        THEN IF anonymousUsed >= AnonymousLimit
             THEN /\ reqs' = [reqs EXCEPT ![r] =
                       [req EXCEPT !.pc = "done", !.outcome = "denied_login"]]
                  /\ UNCHANGED session
             ELSE /\ reqs' = [reqs EXCEPT ![r] =
                       [req EXCEPT !.pc = "generate", !.unit = TRUE]]
                  /\ session' = [session EXCEPT
                       ![s].anonymousMessagesUsed = anonymousUsed + 1]
        ELSE /\ reqs' = [reqs EXCEPT ![r] =
                  IF getUser(users, uid) = NoUser
                  THEN [req EXCEPT !.pc = "done", !.outcome = "not_found"]
                  ELSE IF can = "throw"
                       THEN [req EXCEPT !.pc = "done", !.outcome = "error"]
                       ELSE IF can = "false"
                            THEN [req EXCEPT !.pc = "done",
                                             !.outcome = "denied_upgrade"]
                            ELSE [req EXCEPT !.pc = "generate"]]
             /\ UNCHANGED session
  /\ UNCHANGED <<hvars, response, storageVersion, users, currentUserId, messages, hook,
                 epoch, lastWrite>>

\* generatePersonalizedMessage returns (ok) or throws (the handler answers 500)
GenerateDone(r, ok) ==
  /\ reqs[r].pc = "generate"
  /\ reqs' = [reqs EXCEPT ![r] =
       IF ok THEN [@ EXCEPT !.pc = "create"]
             ELSE [@ EXCEPT !.pc = "done", !.outcome = "error"]]
  /\ UNCHANGED <<hvars, response, storageVersion, users, currentUserId, messages, session, hook,
                 epoch, lastWrite>>

\* storage.createMessage; the tracked variant passes no userId
createMessage(r) ==
  /\ reqs[r].pc = "create"
  /\ messages' = messages \cup
       {[userId |-> IF reqs[r].route = "tracked" THEN 0 ELSE reqs[r].uid,
         req |-> r]}
  /\ reqs' = [reqs EXCEPT ![r] =
       IF reqs[r].uid # 0 THEN [@ EXCEPT !.pc = "increment"]
       ELSE IF reqs[r].route = "session" THEN [@ EXCEPT !.pc = "anonymous"]
       ELSE [@ EXCEPT !.pc = "done", !.outcome = "ok"]]
  /\ UNCHANGED <<hvars, response, storageVersion, users, currentUserId, session, hook,
                 epoch, lastWrite>>

\* storage.incrementMessageUsage, then getUser and the plan lookup of the
\* answer (a TypeError, hence a 500, when the plan is not in the catalog)
IncrementUsage(r) ==
  /\ reqs[r].pc = "increment"
  /\ LET uid == reqs[r].uid IN
     /\ users' = incrementMessageUsage(users, uid)
     /\ reqs' = [reqs EXCEPT ![r].pc = "done", ![r].unit = TRUE,
                             ![r].outcome = IF users'[uid].plan \in Plan
                                            THEN "ok" ELSE "error"]
     /\ epoch' = [epoch EXCEPT ![uid].k = @ + 1]
     /\ Wrote(uid, "incr", [pe |-> 0])
  /\ UNCHANGED <<hvars, response, storageVersion, currentUserId, messages, session, hook>>

\* req.session.anonymousMessagesUsed = anonymousMessagesUsed + 1, from the
\* value read before the generation
AnonymousUsed(r) ==
  /\ reqs[r].pc = "anonymous"
  /\ session' = [session EXCEPT ![reqs[r].sess].anonymousMessagesUsed =
                                   reqs[r].anonymousMessagesUsed + 1]
  /\ reqs' = [reqs EXCEPT ![r].pc = "done", ![r].outcome = "ok",
                          ![r].unit = TRUE]
  /\ UNCHANGED <<hvars, response, storageVersion, users, currentUserId, messages, hook,
                 epoch, lastWrite>>

\* POST /api/create-checkout-session (userId = 1) for a paid plan, up to
\* stripe.customers.create: 404 without the account, and no storage call when
\* the account has a customer id
StartCheckoutSession(r) ==
  /\ Free(r)
  /\ LET user == getUser(users, 1)
         req  == [reqs[r] EXCEPT !.route = "checkout", !.uid = 1]
     IN reqs' = [reqs EXCEPT ![r] =
          IF user = NoUser THEN [req EXCEPT !.pc = "done", !.outcome = "not_found"]
          ELSE IF user.stripeCustomerId # 0
               THEN [req EXCEPT !.pc = "done", !.outcome = "ok"]
               ELSE [req EXCEPT !.pc = "customer"]]
  /\ UNCHANGED <<hvars, response, storageVersion, users, currentUserId, messages,
                 session, hook, epoch, lastWrite>>

\* storage.updateUserSubscription(userId, { stripeCustomerId: customerId })
CreateCustomer(r) ==
  /\ reqs[r].pc = "customer"
  /\ IF Exists(users, 1)
     THEN /\ users' = updateUserSubscription(users, 1, [stripeCustomerId |-> r])
          /\ Wrote(1, "customer", [pe |-> 0])
          /\ Done(r, "ok")
     ELSE /\ Done(r, "error")
          /\ UNCHANGED <<users, lastWrite>>
  /\ UNCHANGED <<hvars, response, storageVersion, currentUserId, messages, session,
                 hook, epoch>>

\* POST /api/auth/register up to bcrypt.hash: refuses a known username
StartRegister(r, s, name) ==
  /\ Free(r)
  /\ currentUserId + InFlight("register") <= MaxUid
  /\ reqs' = [reqs EXCEPT ![r] =
       IF getUserByUsername(users, name) # 0
       THEN [@ EXCEPT !.route = "register", !.sess = s, !.name = name,
                      !.pc = "done", !.outcome = "refused"]
       ELSE [@ EXCEPT !.route = "register", !.sess = s, !.name = name,
                      !.pc = "hash"]]
  /\ UNCHANGED <<hvars, response, storageVersion, users, currentUserId, messages, session, hook,
                 epoch, lastWrite>>

\* storage.createUser and req.session.userId = newUser.id
createUser(r) ==
  /\ reqs[r].pc = "hash"
  /\ LET id == currentUserId IN
     /\ currentUserId' = id + 1
     /\ users' = [users EXCEPT ![id] =
                    NewUser(reqs[r].name, CreatePlan(storageVersion), 0)]
     /\ session' = [session EXCEPT ![reqs[r].sess].userId = id]
     /\ reqs' = [reqs EXCEPT ![r].pc = "done", ![r].outcome = "ok", ![r].uid = id]
     /\ epoch' = [epoch EXCEPT ![id] = [NoEpoch EXCEPT !.kind = "new"]]
     /\ Wrote(id, "create", [pe |-> 0])
  /\ UNCHANGED <<hvars, response, storageVersion, messages, hook>>

\* POST /api/login with valid credentials
Login(s, uid) ==
  /\ Exists(users, uid)
  /\ session[s].userId # uid
  /\ session' = [session EXCEPT ![s].userId = uid]
  /\ UNCHANGED <<hvars, response, storageVersion, users, currentUserId, messages, reqs, hook,
                 epoch, lastWrite>>

\* POST /api/logout: req.session.destroy(); the caller's next request starts
\* an empty session (no userId, anonymousMessagesUsed undefined, read as 0)
Logout(s) ==
  /\ session[s] # [userId |-> 0, anonymousMessagesUsed |-> 0]
  /\ session' = [session EXCEPT ![s] = [userId |-> 0, anonymousMessagesUsed |-> 0]]
  /\ UNCHANGED <<hvars, response, storageVersion, users, currentUserId, messages,
                 reqs, hook, epoch, lastWrite>>

\* ---------------------------------------------------------- HybridStorage
\* A call through the facade is one step: getActiveStorage() at the time of
\* the call, the backend's answer, and (version 3) the catch that turns
\* useDatabase off and repeats the call on memStorage.  `users` and
\* currentUserId are the maps of the facade's memStorage.

HasHybrid == storageVersion \in {2, 3}

\* environment: the database stops answering / answers again
DatabaseFails ==
  /\ HasHybrid /\ dbUp
  /\ dbUp' = FALSE
  /\ UNCHANGED <<dbCalls, useDatabase, dbStorage, probe, call, response, storageVersion,
                 users, currentUserId, messages, session, reqs, hook, epoch,
                 lastWrite>>

DatabaseRecovers ==
  /\ HasHybrid /\ ~dbUp
  /\ dbUp' = TRUE
  /\ UNCHANGED <<dbCalls, useDatabase, dbStorage, probe, call, response, storageVersion,
                 users, currentUserId, messages, session, reqs, hook, epoch,
                 lastWrite>>

\* variant: the probe of version 3 assigns useDatabase on success, as the
\* probe of version 2 does
initializeStorageAssigns ==
  /\ HasHybrid /\ probe = "pending"
  /\ probe' = IF dbUp THEN "ok" ELSE "failed"
  /\ useDatabase' = dbUp
  /\ UNCHANGED <<dbCalls, dbStorage, dbUp, call, response, storageVersion, users,
                 currentUserId, messages, session, reqs, hook, epoch, lastWrite>>

\* the probe started by the constructor completes: dbStorage.getUser(1)
\* resolves or rejects
initializeStorage ==
  /\ HasHybrid /\ probe = "pending"
  /\ probe' = IF dbUp THEN "ok" ELSE "failed"
  /\ useDatabase' = IF dbUp THEN (IF storageVersion = 2 THEN TRUE ELSE useDatabase)
                    ELSE FALSE
  /\ UNCHANGED <<dbCalls, dbStorage, dbUp, call, response, storageVersion, users,
                 currentUserId, messages, session, reqs, hook, epoch, lastWrite>>

\* where a call whose DatabaseStorage answer would be dbr is served
Routed(dbr) ==
  IF ~useDatabase THEN "mem"
  ELSE IF dbr = "throw" /\ storageVersion = 3 THEN "failover"
  ELSE "db"

\* the call record and the flag after a call that made w successful writes,
\* d of them in the database
Called(op, id, dbr, memr, user, w, d) ==
  /\ call' = [op |-> op, id |-> id, routed |-> Routed(dbr),
              result |-> IF Routed(dbr) = "db" THEN dbr ELSE memr,
              user |-> user, writes |-> call.writes + w,
              durable |-> call.durable + d, down |-> ~dbUp]
  /\ useDatabase' = (useDatabase /\ Routed(dbr) # "failover")

\* HybridStorage.getUser
HybridGetUser(id) ==
  /\ HasHybrid
  /\ LET dbr == IF dbUp THEN "ok" ELSE "throw" IN
     Called("getUser", id, dbr, "ok",
            IF Routed(dbr) = "db"
            THEN (IF dbr = "ok" THEN getUser(dbStorage, id) ELSE NoUser)
            ELSE getUser(users, id), 0, 0)
  /\ UNCHANGED <<dbCalls, dbStorage, dbUp, probe, response, storageVersion, users,
                 currentUserId, messages, session, reqs, hook, epoch, lastWrite>>

\* variant: the check takes the unit it has found room for
HybridCanUserGenerateMessageConsumes(id) ==
  /\ HasHybrid
  /\ LET dbr  == IF dbUp THEN canUserGenerateMessage(storageVersion, dbStorage, id)
                 ELSE "throw"
         memr == canUserGenerateMessage(storageVersion, users, id)
     IN /\ Called("canUserGenerateMessage", id, dbr, memr, NoUser, 0, 0)
        /\ dbStorage' = IF Routed(dbr) = "db" /\ dbr = "true"
                        THEN incrementMessageUsage(dbStorage, id) ELSE dbStorage
        /\ users' = IF Routed(dbr) # "db" /\ memr = "true"
                    THEN incrementMessageUsage(users, id) ELSE users
  /\ UNCHANGED <<dbCalls, dbUp, probe, response, storageVersion, currentUserId, messages,
                 session, reqs, hook, epoch, lastWrite>>

\* HybridStorage.canUserGenerateMessage; both backends decide as
\* canUserGenerateMessage of their version does
HybridCanUserGenerateMessage(id) ==
  /\ HasHybrid
  /\ LET dbr == IF dbUp THEN canUserGenerateMessage(storageVersion, dbStorage, id)
                ELSE "throw"
     IN Called("canUserGenerateMessage", id, dbr,
               canUserGenerateMessage(storageVersion, users, id), NoUser, 0, 0)
  /\ UNCHANGED <<dbCalls, dbStorage, dbUp, probe, response, storageVersion, users,
                 currentUserId, messages, session, reqs, hook, epoch, lastWrite>>

\* DatabaseStorage.incrementMessageUsage: version 2 is one UPDATE (no row, no
\* error); version 3 reads the user first and throws "User not found"
dbIncrementMessageUsage(v, id) ==
  IF ~dbUp THEN "throw"
  ELSE IF Exists(dbStorage, id) THEN "ok"
  ELSE IF v = 3 THEN "throw" ELSE "undefined"

\* HybridStorage.incrementMessageUsage
HybridIncrementMessageUsage(id) ==
  /\ HasHybrid /\ call.writes < MaxWrites
  /\ LET dbr  == dbIncrementMessageUsage(storageVersion, id)
         memr == IF Exists(users, id) THEN "ok" ELSE "throw"
         db   == Routed(dbr) = "db" /\ dbr = "ok"
         mem  == Routed(dbr) # "db" /\ memr = "ok"
     IN /\ Called("incrementMessageUsage", id, dbr, memr, NoUser,
                  IF db \/ mem THEN 1 ELSE 0, IF db THEN 1 ELSE 0)
        /\ dbStorage' = IF db THEN incrementMessageUsage(dbStorage, id)
                        ELSE dbStorage
        /\ users' = IF mem THEN incrementMessageUsage(users, id) ELSE users
        /\ epoch' = IF mem THEN [epoch EXCEPT ![id].k = @ + 1] ELSE epoch
        /\ IF mem THEN Wrote(id, "incr", [pe |-> 0]) ELSE UNCHANGED lastWrite
  /\ UNCHANGED <<dbCalls, dbUp, probe, response, storageVersion, currentUserId, messages,
                 session, reqs, hook>>

\* DatabaseStorage.updateUserSubscription: an UPDATE that matches no row
\* returns undefined and raises nothing
dbUpdateUserSubscription(id) ==
  IF ~dbUp THEN "throw"
  ELSE IF Exists(dbStorage, id) THEN "ok" ELSE "undefined"

\* HybridStorage.updateUserSubscription with the data of a completed checkout
HybridUpdateUserSubscription(id, plan) ==
  /\ HasHybrid /\ call.writes < MaxWrites
  /\ LET data == [plan |-> plan, subscriptionStatus |-> "active"]
         dbr  == dbUpdateUserSubscription(id)
         memr == IF Exists(users, id) THEN "ok" ELSE "throw"
         db   == Routed(dbr) = "db" /\ dbr = "ok"
         mem  == Routed(dbr) # "db" /\ memr = "ok"
     IN /\ Called("updateUserSubscription", id, dbr, memr, NoUser,
                  IF db \/ mem THEN 1 ELSE 0, IF db THEN 1 ELSE 0)
        /\ dbStorage' = IF db THEN updateUserSubscription(dbStorage, id, data)
                        ELSE dbStorage
        /\ users' = IF mem THEN updateUserSubscription(users, id, data) ELSE users
        /\ IF mem
           THEN /\ EndRun(id)
                /\ Wrote(id, "checkout",
                     [plan |-> plan, from |-> users[id].subscriptionStatus,
                      was |-> users[id].plan,
                      used |-> users[id].messagesUsedThisMonth])
           ELSE UNCHANGED <<epoch, lastWrite>>
  /\ UNCHANGED <<dbCalls, dbUp, probe, response, storageVersion, currentUserId, messages,
                 session, reqs, hook>>

\* the id the serial column gives the next row (rows are never deleted)
dbNextId == Cardinality({i \in Uids : dbStorage[i] # NoUser}) + 1

\* DatabaseStorage.createUser: version 2 inserts plan "trial", version 3 leaves
\* the plan to the column default 'free'; a taken username violates the
\* unique constraint
dbCreateUser(name) ==
  IF ~dbUp \/ getUserByUsername(dbStorage, name) # 0 THEN "throw" ELSE "ok"

\* HybridStorage.createUser
HybridCreateUser(name) ==
  /\ HasHybrid /\ call.writes < MaxWrites
  /\ dbNextId <= MaxUid /\ currentUserId <= MaxUid
  /\ LET dbr == dbCreateUser(name)
         db  == Routed(dbr) = "db" /\ dbr = "ok"
         mem == Routed(dbr) # "db"
         id  == IF mem THEN currentUserId ELSE dbNextId
     IN /\ Called("createUser", id, dbr, "ok", NoUser,
                  IF db \/ mem THEN 1 ELSE 0, IF db THEN 1 ELSE 0)
        /\ dbStorage' =
             IF db
             THEN [dbStorage EXCEPT ![id] =
                     NewUser(name, IF storageVersion = 2 THEN "trial" ELSE "free", 0)]
             ELSE dbStorage
        /\ users' = IF mem
                    THEN [users EXCEPT ![id] =
                            NewUser(name, CreatePlan(storageVersion), 0)]
                    ELSE users
        /\ currentUserId' = IF mem THEN currentUserId + 1 ELSE currentUserId
        /\ IF mem
           THEN /\ epoch' = [epoch EXCEPT ![id] = [NoEpoch EXCEPT !.kind = "new"]]
                /\ Wrote(id, "create", [pe |-> 0])
           ELSE UNCHANGED <<epoch, lastWrite>>
  /\ UNCHANGED <<dbCalls, dbUp, probe, response, storageVersion, messages, session, reqs,
                 hook>>

Hybrid ==
  \/ DatabaseFails
  \/ DatabaseRecovers
  \/ initializeStorage
  \/ \E id \in Uids : HybridGetUser(id)
  \/ \E id \in Uids : HybridCanUserGenerateMessage(id)
  \/ \E id \in Uids : HybridIncrementMessageUsage(id)
  \/ \E id \in Uids, plan \in Plan : HybridUpdateUserSubscription(id, plan)
  \/ \E name \in Names : HybridCreateUser(name)

\* ------------------------------------------- calls in flight on the database
\* The same facade, with a call that getActiveStorage() sends to
\* DatabaseStorage staying in flight until the database answers or the query
\* rejects; the catch of version 3 runs when the rejection arrives.
\* DatabaseStorage.incrementMessageUsage of version 3 is two queries (getUser,
\* then UPDATE with the value read + 1); version 2 is one UPDATE.

FreeCall(c) ==
  dbCalls[c].pc = "idle" /\ \A b \in Calls : b < c => dbCalls[b].pc # "idle"

\* the call on memStorage: its result and the value it returns
memResult(op, id) == IF Exists(users, id) THEN "ok" ELSE
                     IF op = "getUser" THEN "undefined" ELSE "not_found"

memReturn(op, id) ==
  IF ~Exists(users, id) THEN 0
  ELSE IF op = "getUser" THEN users[id].messagesUsedThisMonth
  ELSE users[id].messagesUsedThisMonth + 1

\* what memStorage holds after the call
memApply(op, id) ==
  /\ users' = IF op = "incrementMessageUsage" /\ Exists(users, id)
              THEN incrementMessageUsage(users, id) ELSE users
  /\ IF op = "incrementMessageUsage" /\ Exists(users, id)
     THEN /\ epoch' = [epoch EXCEPT ![id].k = @ + 1]
          /\ Wrote(id, "incr", [pe |-> 0])
     ELSE UNCHANGED <<epoch, lastWrite>>

\* a call enters the facade: getActiveStorage() picks the backend
Issue(c, op, id) ==
  /\ HasHybrid /\ FreeCall(c)
  /\ IF useDatabase
     THEN /\ dbCalls' = [dbCalls EXCEPT ![c] =
               [NoDbCall EXCEPT !.pc = "read", !.op = op, !.id = id,
                                !.routed = "db"]]
          /\ UNCHANGED <<users, epoch, lastWrite>>
     ELSE /\ dbCalls' = [dbCalls EXCEPT ![c] =
               [NoDbCall EXCEPT !.pc = "done", !.op = op, !.id = id,
                                !.routed = "mem", !.result = memResult(op, id),
                                !.ret = memReturn(op, id)]]
          /\ memApply(op, id)
  /\ UNCHANGED <<useDatabase, dbStorage, dbUp, probe, call, response,
                 storageVersion, currentUserId, messages, session, reqs, hook>>

\* the database answers the first (or only) query of the call
dbAnswer(c) ==
  /\ dbCalls[c].pc = "read" /\ dbUp
  /\ LET op  == dbCalls[c].op
         id  == dbCalls[c].id
         row == getUser(dbStorage, id)
     IN IF op = "getUser"
        THEN /\ dbCalls' = [dbCalls EXCEPT ![c].pc = "done",
                  ![c].result = IF row = NoUser THEN "undefined" ELSE "ok",
                  ![c].ret = row.messagesUsedThisMonth]
             /\ UNCHANGED <<dbStorage, useDatabase, users, epoch, lastWrite>>
        ELSE IF storageVersion = 2
        THEN /\ dbCalls' = [dbCalls EXCEPT ![c].pc = "done",
                  ![c].result = IF row = NoUser THEN "undefined" ELSE "ok",
                  ![c].ret = IF row = NoUser THEN 0
                             ELSE row.messagesUsedThisMonth + 1]
             /\ dbStorage' = IF row = NoUser THEN dbStorage
                             ELSE incrementMessageUsage(dbStorage, id)
             /\ UNCHANGED <<useDatabase, users, epoch, lastWrite>>
        ELSE IF row # NoUser
        THEN /\ dbCalls' = [dbCalls EXCEPT ![c].pc = "write",
                  ![c].seen = row.messagesUsedThisMonth]
             /\ UNCHANGED <<dbStorage, useDatabase, users, epoch, lastWrite>>
        ELSE \* throw new Error("User not found"), caught by the facade
             /\ dbCalls' = [dbCalls EXCEPT ![c].pc = "done",
                  ![c].routed = IF useDatabase THEN "failover" ELSE "db",
                  ![c].result = IF useDatabase THEN memResult(op, id)
                                ELSE "not_found",
                  ![c].ret = IF useDatabase THEN memReturn(op, id) ELSE 0]
             /\ useDatabase' = FALSE
             /\ UNCHANGED dbStorage
             /\ IF useDatabase THEN memApply(op, id)
                ELSE UNCHANGED <<users, epoch, lastWrite>>
  /\ UNCHANGED <<dbUp, probe, call, response, storageVersion, currentUserId,
                 messages, session, reqs, hook>>

\* the UPDATE of version 3's incrementMessageUsage, with the value read before
dbWrite(c) ==
  /\ dbCalls[c].pc = "write" /\ dbUp
  /\ dbStorage' = [dbStorage EXCEPT ![dbCalls[c].id].messagesUsedThisMonth =
                                       dbCalls[c].seen + 1]
  /\ dbCalls' = [dbCalls EXCEPT ![c].pc = "done", ![c].result = "ok",
                                ![c].ret = dbCalls[c].seen + 1]
  /\ UNCHANGED <<useDatabase, dbUp, probe, call, response, storageVersion, users,
                 currentUserId, messages, session, reqs, hook, epoch, lastWrite>>

\* the query of a call in flight rejects.  Version 3: the catch turns
\* useDatabase off and repeats the call on memStorage when useDatabase is
\* still true, and rethrows the error otherwise; version 2 has no catch
dbRaise(c) ==
  /\ dbCalls[c].pc \in {"read", "write"} /\ ~dbUp
  /\ LET op == dbCalls[c].op
         id == dbCalls[c].id
     IN IF storageVersion = 3 /\ useDatabase
        THEN /\ dbCalls' = [dbCalls EXCEPT ![c].pc = "done",
                  ![c].routed = "failover", ![c].result = memResult(op, id),
                  ![c].ret = memReturn(op, id)]
             /\ useDatabase' = FALSE
             /\ memApply(op, id)
        ELSE /\ dbCalls' = [dbCalls EXCEPT ![c].pc = "done", ![c].result = "throw"]
             /\ UNCHANGED <<useDatabase, users, epoch, lastWrite>>
  /\ UNCHANGED <<dbStorage, dbUp, probe, call, response, storageVersion,
                 currentUserId, messages, session, reqs, hook>>

InFlightCalls ==
  \/ DatabaseFails
  \/ DatabaseRecovers
  \/ initializeStorage
  \/ \E name \in Names : HybridCreateUser(name)
  \/ \E c \in Calls, id \in Uids :
       \E op \in {"getUser", "incrementMessageUsage"} : Issue(c, op, id)
  \/ \E c \in Calls : dbAnswer(c)
  \/ \E c \in Calls : dbWrite(c)
  \/ \E c \in Calls : dbRaise(c)

\* ------------------------------------------------- POST /api/webhooks/stripe
\* MemStorage.updateUserSubscription throws "User not found" for an unknown
\* id and the handler answers 500 with no write: the events below are those
\* whose metadata names an existing account.

\* res.json({ received: true }) after the switch
Received(event) == response' = [event |-> event, status |-> 200]

\* variant: the update leaves subscriptionStatus out
CheckoutCompletedKeepsStatus(uid, plan, sub) ==
  /\ hook.pc = "idle"
  /\ Exists(users, uid)
  /\ users' = updateUserSubscription(users, uid,
       [stripeSubscriptionId |-> sub, plan |-> plan])
  /\ EndRun(uid)
  /\ Wrote(uid, "checkout",
       [plan |-> plan, sub |-> sub, from |-> users[uid].subscriptionStatus,
        was |-> users[uid].plan, used |-> users[uid].messagesUsedThisMonth])
  /\ Received("checkout")
  /\ UNCHANGED <<hvars, storageVersion, currentUserId, messages, session, reqs, hook>>

\* case 'checkout.session.completed'
CheckoutCompleted(uid, plan, sub) ==
  /\ hook.pc = "idle"
  /\ Exists(users, uid)
  /\ users' = updateUserSubscription(users, uid,
       [stripeSubscriptionId |-> sub, plan |-> plan,
        subscriptionStatus |-> "active"])
  /\ EndRun(uid)
  /\ Wrote(uid, "checkout",
       [plan |-> plan, sub |-> sub, from |-> users[uid].subscriptionStatus,
        was |-> users[uid].plan, used |-> users[uid].messagesUsedThisMonth])
  /\ Received("checkout")
  /\ UNCHANGED <<hvars, storageVersion, currentUserId, messages, session, reqs, hook>>

\* variant: the period end is advanced from the stored one instead of set
InvoicePaidUpdateExtends(uid, pe) ==
  /\ hook.pc = "idle"
  /\ Exists(users, uid)
  /\ users' = updateUserSubscription(users, uid,
       [currentPeriodEnd |-> users[uid].currentPeriodEnd + pe,
        subscriptionStatus |-> "active"])
  /\ LET replay == epoch[uid].n = 1 /\ epoch[uid].pe = pe IN
     /\ hook' = [pc |-> "reset", uid |-> uid, pe |-> pe,
                 from |-> users[uid].subscriptionStatus,
                 wasPe |-> users[uid].currentPeriodEnd, replay |-> replay]
     /\ IF replay THEN UNCHANGED epoch ELSE EndRun(uid)
  /\ Wrote(uid, "paidUpdate", [pe |-> pe, from |-> users[uid].subscriptionStatus])
  /\ UNCHANGED <<hvars, response, storageVersion, currentUserId, messages, session, reqs>>

\* case 'invoice.payment_succeeded', first storage call
InvoicePaidUpdate(uid, pe) ==
  /\ hook.pc = "idle"
  /\ Exists(users, uid)
  /\ users' = updateUserSubscription(users, uid,
       [currentPeriodEnd |-> pe, subscriptionStatus |-> "active"])
  /\ LET replay == epoch[uid].n = 1 /\ epoch[uid].pe = pe IN
     /\ hook' = [pc |-> "reset", uid |-> uid, pe |-> pe,
                 from |-> users[uid].subscriptionStatus,
                 wasPe |-> users[uid].currentPeriodEnd, replay |-> replay]
     /\ IF replay THEN UNCHANGED epoch ELSE EndRun(uid)
  /\ Wrote(uid, "paidUpdate", [pe |-> pe, from |-> users[uid].subscriptionStatus])
  /\ UNCHANGED <<hvars, response, storageVersion, currentUserId, messages, session, reqs>>

\* case 'invoice.payment_succeeded', second storage call
InvoicePaidReset ==
  /\ hook.pc = "reset"
  /\ users' = resetMonthlyUsage(users, hook.uid)
  /\ hook' = IdleHook
  /\ epoch' = [epoch EXCEPT ![hook.uid] =
       IF hook.replay THEN [@ EXCEPT !.n = 2, !.between = epoch[hook.uid].k, !.k = 0]
       ELSE [kind |-> "paid", pe |-> hook.pe, k |-> 0, n |-> 1, between |-> 0,
             acct |-> users'[hook.uid]]]
  /\ Wrote(hook.uid, "paid",
       [pe |-> hook.pe, from |-> hook.from, wasPe |-> hook.wasPe,
        used |-> users[hook.uid].messagesUsedThisMonth])
  /\ Received("paid")
  /\ UNCHANGED <<hvars, storageVersion, currentUserId, messages, session, reqs>>

\* variant: a failed payment also takes the paid plan away
InvoiceFailedRevokes(uid) ==
  /\ hook.pc = "idle"
  /\ Exists(users, uid)
  /\ users' = updateUserSubscription(users, uid,
       [subscriptionStatus |-> "past_due", plan |-> "trial"])
  /\ EndRun(uid)
  /\ Wrote(uid, "failed",
       [from |-> users[uid].subscriptionStatus, was |-> users[uid].plan,
        used |-> users[uid].messagesUsedThisMonth,
        wasPe |-> users[uid].currentPeriodEnd])
  /\ Received("failed")
  /\ UNCHANGED <<hvars, storageVersion, currentUserId, messages, session, reqs, hook>>

\* case 'invoice.payment_failed'
InvoiceFailed(uid) ==
  /\ hook.pc = "idle"
  /\ Exists(users, uid)
  /\ users' = updateUserSubscription(users, uid,
       [subscriptionStatus |-> "past_due"])
  /\ EndRun(uid)
  /\ Wrote(uid, "failed",
       [from |-> users[uid].subscriptionStatus, was |-> users[uid].plan,
        used |-> users[uid].messagesUsedThisMonth,
        wasPe |-> users[uid].currentPeriodEnd])
  /\ Received("failed")
  /\ UNCHANGED <<hvars, storageVersion, currentUserId, messages, session, reqs, hook>>

\* variant: the cancelled account starts over with an empty counter
SubscriptionDeletedResets(uid) ==
  /\ hook.pc = "idle"
  /\ Exists(users, uid)
  /\ users' = resetMonthlyUsage(
       updateUserSubscription(users, uid,
         [plan |-> "free", subscriptionStatus |-> "canceled",
          stripeSubscriptionId |-> 0]), uid)
  /\ EndRun(uid)
  /\ Wrote(uid, "deleted", [from |-> users[uid].subscriptionStatus])
  /\ Received("deleted")
  /\ UNCHANGED <<hvars, storageVersion, currentUserId, messages, session, reqs, hook>>

\* case 'customer.subscription.deleted'
SubscriptionDeleted(uid) ==
  /\ hook.pc = "idle"
  /\ Exists(users, uid)
  /\ users' = updateUserSubscription(users, uid,
       [plan |-> "free", subscriptionStatus |-> "canceled",
        stripeSubscriptionId |-> 0])
  /\ EndRun(uid)
  /\ Wrote(uid, "deleted", [from |-> users[uid].subscriptionStatus])
  /\ Received("deleted")
  /\ UNCHANGED <<hvars, storageVersion, currentUserId, messages, session, reqs, hook>>

\* an event whose type matches no case of the switch
UnknownEvent ==
  /\ hook.pc = "idle"
  /\ Received("unknown")
  /\ UNCHANGED <<hvars, storageVersion, users, currentUserId, messages, session,
                 reqs, hook, epoch, lastWrite>>

\* an event of one of the four types whose metadata has no userId:
\* parseInt(... || '0') is 0 and the `if (userId)` block is skipped
EventWithoutUser ==
  /\ hook.pc = "idle"
  /\ Received("no_user")
  /\ UNCHANGED <<hvars, storageVersion, users, currentUserId, messages, session,
                 reqs, hook, epoch, lastWrite>>

\* checkout.session.completed whose metadata has a userId and no plan
CheckoutWithoutPlan(uid) ==
  /\ hook.pc = "idle"
  /\ Received("no_plan")
  /\ UNCHANGED <<hvars, storageVersion, users, currentUserId, messages, session,
                 reqs, hook, epoch, lastWrite>>

\* an event for a userId MemStorage does not hold: updateUserSubscription
\* throws "User not found" and the catch answers 500
EventForMissingUser(uid) ==
  /\ hook.pc = "idle"
  /\ ~Exists(users, uid)
  /\ response' = [event |-> "missing_user", status |-> 500]
  /\ UNCHANGED <<hvars, storageVersion, users, currentUserId, messages, session,
                 reqs, hook, epoch, lastWrite>>

Malformed ==
  \/ UnknownEvent
  \/ EventWithoutUser
  \/ \E uid \in Uids : CheckoutWithoutPlan(uid)
  \/ \E uid \in Uids : EventForMissingUser(uid)

\* ---------------------------- invoice.payment_succeeded on the HybridStorage
\* the same case of the handler when storage is the facade: two facade calls
\* with an await between them, and the catch of the handler answering 500

\* DatabaseStorage.resetMonthlyUsage: an UPDATE that matches no row returns
\* undefined and raises nothing
dbResetMonthlyUsage(id) ==
  IF ~dbUp THEN "throw"
  ELSE IF Exists(dbStorage, id) THEN "ok" ELSE "undefined"

\* res.status(500) in the catch of the handler
Failed(event) == response' = [event |-> event, status |-> 500]

\* first storage call
HybridInvoicePaidUpdate(id, pe) ==
  /\ HasHybrid /\ call.writes < MaxWrites
  /\ hook.pc = "idle"
  /\ LET data == [currentPeriodEnd |-> pe, subscriptionStatus |-> "active"]
         dbr  == dbUpdateUserSubscription(id)
         memr == IF Exists(users, id) THEN "ok" ELSE "throw"
         db   == Routed(dbr) = "db" /\ dbr = "ok"
         mem  == Routed(dbr) # "db" /\ memr = "ok"
         res  == IF Routed(dbr) = "db" THEN dbr ELSE memr
     IN /\ Called("updateUserSubscription", id, dbr, memr, NoUser,
                  IF db \/ mem THEN 1 ELSE 0, IF db THEN 1 ELSE 0)
        /\ dbStorage' = IF db THEN updateUserSubscription(dbStorage, id, data)
                        ELSE dbStorage
        /\ users' = IF mem THEN updateUserSubscription(users, id, data) ELSE users
        /\ IF mem
           THEN /\ EndRun(id)
                /\ Wrote(id, "paidUpdate",
                     [pe |-> pe, from |-> users[id].subscriptionStatus])
           ELSE UNCHANGED <<epoch, lastWrite>>
        /\ IF res = "throw"
           THEN /\ Failed("paid") /\ UNCHANGED hook
           ELSE /\ hook' = [IdleHook EXCEPT !.pc = "hreset", !.uid = id, !.pe = pe,
                     !.from = IF db THEN dbStorage[id].subscriptionStatus
                              ELSE IF mem THEN users[id].subscriptionStatus
                              ELSE "-"]
                /\ UNCHANGED response
  /\ UNCHANGED <<dbCalls, dbUp, probe, storageVersion, currentUserId, messages,
                 session, reqs>>

\* second storage call, and the answer of the handler
HybridInvoicePaidReset ==
  /\ hook.pc = "hreset"
  /\ LET id   == hook.uid
         dbr  == dbResetMonthlyUsage(id)
         memr == IF Exists(users, id) THEN "ok" ELSE "throw"
         db   == Routed(dbr) = "db" /\ dbr = "ok"
         mem  == Routed(dbr) # "db" /\ memr = "ok"
         res  == IF Routed(dbr) = "db" THEN dbr ELSE memr
     IN /\ Called("resetMonthlyUsage", id, dbr, memr, NoUser,
                  IF db \/ mem THEN 1 ELSE 0, IF db THEN 1 ELSE 0)
        /\ dbStorage' = IF db THEN resetMonthlyUsage(dbStorage, id) ELSE dbStorage
        /\ users' = IF mem THEN resetMonthlyUsage(users, id) ELSE users
        /\ IF mem
           THEN /\ epoch' = [epoch EXCEPT ![id] =
                     [kind |-> "paid", pe |-> hook.pe, k |-> 0, n |-> 1,
                      between |-> 0, acct |-> users'[id]]]
                /\ Wrote(id, "paid",
                     [pe |-> hook.pe, used |-> users[id].messagesUsedThisMonth])
           ELSE UNCHANGED <<epoch, lastWrite>>
        /\ IF res = "throw" THEN Failed("paid") ELSE Received("paid")
  /\ hook' = IdleHook
  /\ UNCHANGED <<dbCalls, dbUp, probe, storageVersion, currentUserId, messages,
                 session, reqs>>

HybridInvoice ==
  \/ DatabaseFails
  \/ DatabaseRecovers
  \/ initializeStorage
  \/ \E name \in Names : HybridCreateUser(name)
  \/ \E id \in Uids : HybridIncrementMessageUsage(id)
  \/ \E id \in Uids, pe \in Periods : HybridInvoicePaidUpdate(id, pe)
  \/ HybridInvoicePaidReset

\* ------------------------------------------------------------ specification
\* the generation handlers after their entitlement check
Generation ==
  \/ \E r \in Reqs, ok \in BOOLEAN : GenerateDone(r, ok)
  \/ \E r \in Reqs : createMessage(r)
  \/ \E r \in Reqs : IncrementUsage(r)

Billing ==
  \/ \E uid \in Uids, plan \in Plan, sub \in SubIds : CheckoutCompleted(uid, plan, sub)
  \/ \E uid \in Uids, pe \in Periods : InvoicePaidUpdate(uid, pe)
  \/ InvoicePaidReset
  \/ \E uid \in Uids : InvoiceFailed(uid)
  \/ \E uid \in Uids : SubscriptionDeleted(uid)

\* the whole server
Next ==
  \/ \E r \in Reqs : StartTracked(r)
  \/ \E r \in Reqs, s \in Sess : StartSession(r, s)
  \/ \E r \in Reqs, s \in Sess : StartFlow(r, s)
  \/ Generation
  \/ \E r \in Reqs : AnonymousUsed(r)
  \/ \E r \in Reqs, s \in Sess, name \in Names : StartRegister(r, s, name)
  \/ \E r \in Reqs : createUser(r)
  \/ \E s \in Sess, uid \in Uids : Login(s, uid)
  \/ \E s \in Sess : Logout(s)
  \/ \E r \in Reqs : StartCheckoutSession(r)
  \/ \E r \in Reqs : CreateCustomer(r)
  \/ Billing
  \/ Malformed

Spec == Init /\ [][Next]_vars

\* the routes that check the usage limit before generating, and no billing
NextQuota ==
  \/ \E r \in Reqs : StartTracked(r)
  \/ \E r \in Reqs, s \in Sess : StartFlow(r, s)
  \/ Generation
  \/ \E s \in Sess, uid \in Uids : Login(s, uid)

SpecQuota == Init /\ [][NextQuota]_vars

\* sessions, registration and the three generation routes, no billing
NextMeter ==
  \/ \E r \in Reqs : StartTracked(r)
  \/ \E r \in Reqs, s \in Sess : StartSession(r, s)
  \/ \E r \in Reqs, s \in Sess : StartFlow(r, s)
  \/ Generation
  \/ \E r \in Reqs : AnonymousUsed(r)
  \/ \E r \in Reqs, s \in Sess, name \in Names : StartRegister(r, s, name)
  \/ \E r \in Reqs : createUser(r)
  \/ \E s \in Sess, uid \in Uids : Login(s, uid)

SpecMeter == Init /\ [][NextMeter]_vars

\* the two session-based generation routes as anonymous callers use them
NextAnonymous ==
  \/ \E r \in Reqs, s \in Sess : StartSession(r, s)
  \/ \E r \in Reqs, s \in Sess : StartFlow(r, s)
  \/ \E r \in Reqs, ok \in BOOLEAN : GenerateDone(r, ok)
  \/ \E r \in Reqs : createMessage(r)
  \/ \E r \in Reqs : AnonymousUsed(r)

SpecAnonymous == Init /\ [][NextAnonymous]_vars

\* an anonymous caller with the operations open to it
NextSessions ==
  \/ NextAnonymous
  \/ \E s \in Sess : Logout(s)

SpecSessions == Init /\ [][NextSessions]_vars

\* the usage-tracked generation route (account 1) with plan changes
NextPlans ==
  \/ \E r \in Reqs : StartTracked(r)
  \/ Generation
  \/ \E uid \in Uids, plan \in Plan, sub \in SubIds : CheckoutCompleted(uid, plan, sub)

SpecPlans == Init /\ [][NextPlans]_vars

\* the webhook with the usage-tracked generation route (account 1)
NextBilling ==
  \/ \E r \in Reqs : r <= MaxBillingReqs /\ StartTracked(r)
  \/ Generation
  \/ Billing

SpecBilling == Init /\ [][NextBilling]_vars

\* a request has been made on the route
Sent(route) == \E r \in Reqs : reqs[r].route = route

\* the webhook with one request of the usage-tracked generation route and one
\* of the checkout session route, all on account 1
NextFrames ==
  \/ \E r \in Reqs : ~Sent("tracked") /\ StartTracked(r)
  \/ \E r \in Reqs : ~Sent("checkout") /\ StartCheckoutSession(r)
  \/ \E r \in Reqs : CreateCustomer(r)
  \/ Generation
  \/ Billing

SpecFrames == Init /\ [][NextFrames]_vars

\* the webhook alone, with well-formed and malformed events
NextEvents ==
  \/ Billing
  \/ Malformed

SpecEvents == Init /\ [][NextEvents]_vars

\* a process whose storage is the facade: calls, probe and database outages
SpecHybrid == Init /\ [][Hybrid]_vars

\* the webhook handler of a paid invoice on the facade
SpecInvoice == Init /\ [][HybridInvoice]_vars

\* the facade with calls in flight on the database
SpecInFlight == Init /\ [][InFlightCalls]_vars

\* used = increments since the account was created or last reset
LedgerCounts ==
  \A u \in Uids :
    (epoch[u].kind # "none" /\ hook.uid # u)
      => users[u].messagesUsedThisMonth = epoch[u].k


\* ================================================================== claims
Min(a, b) == IF a < b THEN a ELSE b

Quota(u) == SUBSCRIPTION_PLANS[users[u].plan].messagesPerMonth

TrialQuota == SUBSCRIPTION_PLANS["trial"].messagesPerMonth

AllDone == \A r \in Reqs : reqs[r].pc \in {"idle", "done"}

\* the checked generation requests of account u that were answered 200 or 403
Served(u) ==
  {r \in Reqs : /\ reqs[r].pc = "done" /\ reqs[r].uid = u
                /\ reqs[r].route \in {"tracked", "flow"}
                /\ reqs[r].outcome \in {"ok", "denied_upgrade"}}

Succeeded(u) == {r \in Served(u) : reqs[r].outcome = "ok"}

\* C1: once all N concurrent checked generation requests of a fresh account
\* with quota Q are answered, exactly min(N, Q) have succeeded and
\* messagesUsedThisMonth has grown by exactly that number.
QuotaMonotonicity ==
  \A u \in Uids :
    (AllDone /\ Exists(users, u) /\ users[u].plan \in Plan /\ epoch[u].kind = "new")
      => /\ Cardinality(Succeeded(u)) = Min(Cardinality(Served(u)), Quota(u))
         /\ users[u].messagesUsedThisMonth = Cardinality(Succeeded(u))
         /\ users[u].messagesUsedThisMonth <= Quota(u)

\* C2: after a successful generation request of an account, its
\* messagesUsedThisMonth is between 0 and the messagesPerMonth of its plan.
UsageWithinQuota ==
  \A r \in Reqs :
    (/\ reqs[r].pc = "done" /\ reqs[r].outcome = "ok"
     /\ reqs[r].route \in {"session", "tracked", "flow"} /\ reqs[r].uid # 0
     /\ users[reqs[r].uid].plan \in Plan)
      => /\ 0 <= users[reqs[r].uid].messagesUsedThisMonth
         /\ users[reqs[r].uid].messagesUsedThisMonth <= Quota(reqs[r].uid)

\* C3: for an account on a catalog plan the entitlement decision is Allow
\* exactly when messagesUsedThisMonth < messagesPerMonth and Deny otherwise,
\* and after k usages since the account was created (or its counter reset)
\* the decision is Allow iff k < Q, with remaining = Q - k.
EntitlementDecision ==
  \A u \in Uids :
    (Exists(users, u) /\ users[u].plan \in Plan)
      => LET can == canUserGenerateMessage(storageVersion, users, u)
             sub == subscription(users, [userId |-> u, anonymousMessagesUsed |-> 0])
         IN /\ can = IF users[u].messagesUsedThisMonth < Quota(u)
                     THEN "true" ELSE "false"
            /\ epoch[u].kind # "none"
                 => /\ (can = "true") <=> (epoch[u].k < Quota(u))
                    /\ sub.kind = "account"
                    /\ sub.messagesRemaining = Quota(u) - epoch[u].k

EntitlementWitness ==
  \E r \in Reqs :
    /\ reqs[r].route = "tracked" /\ reqs[r].outcome = "denied_upgrade"
    /\ users[1].plan = "trial" /\ epoch[1].kind = "new" /\ epoch[1].k = 2
    /\ canUserGenerateMessage(storageVersion, users, 1) = "false"
    /\ \E q \in Reqs : reqs[q].route = "tracked" /\ reqs[q].outcome = "ok"


\* C4: an anonymous request is allowed exactly when the session's counter
\* (0 when unset) is below 1 and answered needs-login otherwise, whatever the
\* Plan Catalog says; the subscription view reports the same allowance.
AnonymousEntitlement ==
  /\ \A r \in Reqs :
       (reqs[r].route \in {"session", "flow"} /\ reqs[r].uid = 0)
         => IF reqs[r].anonymousMessagesUsed < 1
            THEN reqs[r].outcome \notin {"denied_login", "denied_upgrade"}
            ELSE reqs[r].pc = "done" /\ reqs[r].outcome = "denied_login"
  /\ \A s \in Sess :
       session[s].userId = 0
         => LET sub == subscription(users, session[s])
            IN /\ sub.messagesLimit = 1
               /\ (sub.messagesRemaining > 0) <=> (session[s].anonymousMessagesUsed < 1)

AnonymousWitness ==
  \E r, q \in Reqs :
    /\ reqs[r].uid = 0 /\ reqs[r].route = "flow" /\ reqs[r].outcome = "ok"
    /\ reqs[q].uid = 0 /\ reqs[q].route = "session"
    /\ reqs[q].outcome = "denied_login" /\ reqs[q].anonymousMessagesUsed = 1
    /\ subscription(users, session[reqs[q].sess]).messagesRemaining = 0

\* C5: for an account whose plan is not a key of SUBSCRIPTION_PLANS the
\* entitlement decision is the one the trial plan gives for the same counter.
UnknownPlanDecidedAsTrial ==
  \A u \in Uids :
    (Exists(users, u) /\ users[u].plan \notin Plan)
      => canUserGenerateMessage(storageVersion, users, u)
           = IF users[u].messagesUsedThisMonth < TrialQuota THEN "true" ELSE "false"

\* C6: an invoice.payment_succeeded event applied twice in a row (same period
\* end, nothing in between) leaves the account as the first application did.
InvoicePaidIdempotent ==
  \A u \in Uids :
    (epoch[u].n = 2 /\ epoch[u].between = 0 /\ lastWrite[u].kind = "paid")
      => users[u] = epoch[u].acct

InvoicePaidTwiceWitness ==
  \E u \in Uids :
    /\ epoch[u].n = 2 /\ epoch[u].between = 0 /\ lastWrite[u].kind = "paid"
    /\ users[u].currentPeriodEnd = lastWrite[u].pe
    /\ users[u] = epoch[u].acct

\* C7: a replay of an applied invoice.payment_succeeded event after k >= 1
\* usages leaves the counter at k and the period end unchanged.
ReplayKeepsUsage ==
  \A u \in Uids :
    (epoch[u].n = 2 /\ epoch[u].between >= 1 /\ lastWrite[u].kind = "paid")
      => /\ users[u].messagesUsedThisMonth = epoch[u].between
         /\ users[u].currentPeriodEnd = epoch[u].acct.currentPeriodEnd

\* C8: customer.subscription.deleted sets the status to canceled and the plan
\* to the trial identifier of the catalog, so that the entitlement check is
\* decided against the trial quota.
CancelFallsBackToTrial ==
  \A u \in Uids :
    lastWrite[u].kind = "deleted"
      => /\ users[u].subscriptionStatus = "canceled"
         /\ users[u].plan = "trial"
         /\ canUserGenerateMessage(storageVersion, users, u)
              = IF users[u].messagesUsedThisMonth < TrialQuota
                THEN "true" ELSE "false"

\* C9: invoice.payment_succeeded applied to an active or past_due account
\* leaves it active, with messagesUsedThisMonth = 0 and the event's period end.
InvoicePaidActivates ==
  \A u \in Uids :
    (lastWrite[u].kind = "paid" /\ lastWrite[u].from \in {"active", "past_due"})
      => /\ users[u].subscriptionStatus = "active"
         /\ users[u].messagesUsedThisMonth = 0
         /\ users[u].currentPeriodEnd = lastWrite[u].pe

InvoicePaidWitness ==
  \E u \in Uids :
    /\ lastWrite[u].kind = "paid" /\ lastWrite[u].from = "past_due"
    /\ lastWrite[u].pe = MaxPeriod
    /\ users[u].subscriptionStatus = "active"
    /\ users[u].messagesUsedThisMonth = 0
    /\ \E r \in Reqs : reqs[r].uid = u /\ reqs[r].outcome = "ok"

\* C10: checkout.session.completed applied to an account in any status sets
\* the status to active, the plan to the event's plan and the subscription
\* reference to the event's.
CheckoutActivates ==
  \A u \in Uids :
    lastWrite[u].kind = "checkout"
      => /\ users[u].subscriptionStatus = "active"
         /\ users[u].plan = lastWrite[u].plan
         /\ users[u].stripeSubscriptionId = lastWrite[u].sub

CheckoutWitness ==
  \E u \in Uids :
    /\ lastWrite[u].kind = "checkout" /\ lastWrite[u].from = "canceled"
    /\ lastWrite[u].plan = "pro"
    /\ users[u].subscriptionStatus = "active" /\ users[u].plan = "pro"
    /\ users[u].stripeSubscriptionId # 0

\* the usage view of account u, as GET /api/user/subscription answers it
View(u) == subscription(users, [userId |-> u, anonymousMessagesUsed |-> 0])

\* C11: after checkout.session.completed with plan pro on an account that was
\* on trial with two recorded usages, the plan is pro and the next
\* subscription query answers messagesRemaining = 500.
CheckoutGrantsFullQuota ==
  \A u \in Uids :
    (/\ lastWrite[u].kind = "checkout" /\ lastWrite[u].plan = "pro"
     /\ lastWrite[u].was = "trial" /\ lastWrite[u].used = 2)
      => /\ users[u].plan = "pro"
         /\ View(u).messagesRemaining = 500

\* C11 as amended: the plan is pro, the two usages stay recorded and the next
\* subscription query answers messagesRemaining = 500 - 2 = 498.
CheckoutKeepsUsage ==
  \A u \in Uids :
    (/\ lastWrite[u].kind = "checkout" /\ lastWrite[u].plan = "pro"
     /\ lastWrite[u].was = "trial" /\ lastWrite[u].used = 2)
      => /\ users[u].plan = "pro"
         /\ users[u].messagesUsedThisMonth = 2
         /\ View(u).kind = "account"
         /\ View(u).messagesRemaining = 498
         /\ canUserGenerateMessage(storageVersion, users, u) = "true"

CheckoutAfterUsageWitness ==
  /\ lastWrite[1].kind = "checkout" /\ lastWrite[1].plan = "pro"
  /\ lastWrite[1].was = "trial" /\ lastWrite[1].used = 2
  /\ Cardinality({r \in Reqs : reqs[r].route = "tracked" /\ reqs[r].outcome = "ok"}) = 2
  /\ View(1).messagesRemaining = 498

DecisionWith(u, p, k) ==
  canUserGenerateMessage(storageVersion,
    [users EXCEPT ![u].plan = p, ![u].messagesUsedThisMonth = k], u)

\* C13: invoice.payment_failed applied to an active account sets the status to
\* past_due and leaves messagesUsedThisMonth, plan and currentPeriodEnd as they
\* were, so the entitlement decision is the same before and after the event.
InvoiceFailedKeepsQuota ==
  \A u \in Uids :
    (lastWrite[u].kind = "failed" /\ lastWrite[u].from = "active")
      => /\ users[u].subscriptionStatus = "past_due"
         /\ users[u].messagesUsedThisMonth = lastWrite[u].used
         /\ users[u].plan = lastWrite[u].was
         /\ users[u].currentPeriodEnd = lastWrite[u].wasPe
         /\ canUserGenerateMessage(storageVersion, users, u)
              = DecisionWith(u, lastWrite[u].was, lastWrite[u].used)

InvoiceFailedWitness ==
  \E u \in Uids :
    /\ lastWrite[u].kind = "failed" /\ lastWrite[u].from = "active"
    /\ lastWrite[u].was = "pro" /\ lastWrite[u].used >= 1
    /\ lastWrite[u].wasPe # 0
    /\ users[u].subscriptionStatus = "past_due"
    /\ canUserGenerateMessage(storageVersion, users, u) = "true"

\* C14: the status changes only along the specified transitions:
\* invoice.payment_failed changes it only from active, and
\* invoice.payment_succeeded only from active or past_due, so a canceled
\* account stays canceled under both.
StatusFollowsTransitions ==
  \A u \in Uids :
    /\ (lastWrite[u].kind = "failed" /\ lastWrite[u].from # "active")
         => users[u].subscriptionStatus = lastWrite[u].from
    /\ (/\ lastWrite[u].kind \in {"paidUpdate", "paid"}
        /\ lastWrite[u].from \notin {"active", "past_due"})
         => users[u].subscriptionStatus = lastWrite[u].from

\* C15: an event of unknown type, without account id, without plan or for an
\* account that does not exist is answered as rejected (a 4xx or 5xx status)
\* and leaves every account as it was.
MalformedEventRejected ==
  [][(/\ response' # response
      /\ response'.event \in {"unknown", "no_user", "no_plan", "missing_user"})
       => /\ users' = users
          /\ response'.status >= 400]_vars

\* C16: an invoice.payment_succeeded event carrying an older period end than
\* the stored one changes nothing: currentPeriodEnd does not move backwards
\* and the counter is not reset.
StaleInvoiceRejected ==
  \A u \in Uids :
    (lastWrite[u].kind = "paid" /\ lastWrite[u].pe < lastWrite[u].wasPe)
      => /\ users[u].currentPeriodEnd = lastWrite[u].wasPe
         /\ users[u].messagesUsedThisMonth = lastWrite[u].used

\* C17: once useDatabase is false it stays false, and every call made from
\* then on is served by memStorage.
FailoverOneWay ==
  [][~useDatabase
       => /\ ~useDatabase'
          /\ call' # call => call'.routed = "mem"]_vars

FailoverWitness ==
  /\ ~useDatabase /\ dbUp /\ probe = "ok"
  /\ call.routed = "mem" /\ call.durable >= 1 /\ call.writes > call.durable

\* C18: when the probe fails, every call made while the database was down,
\* also one made before the probe completed, was served by memStorage, and
\* the entitlement check did not reject.
ProbeFailureServedFromMemory ==
  (probe = "failed" /\ call.op # "-" /\ call.down)
    => /\ call.routed \in {"mem", "failover"}
       /\ call.op = "canUserGenerateMessage" => call.result # "throw"

\* C19: the call that fails over after M >= 1 writes through the facade
\* answers from a view that holds those writes: getUser returns the account
\* as written and canUserGenerateMessage decides as that account implies.
FailoverTransparent ==
  (/\ call.routed = "failover" /\ call.down /\ call.durable >= 1
   /\ Exists(dbStorage, call.id) /\ dbStorage[call.id].plan \in Plan)
    => /\ call.op = "getUser" => call.user = dbStorage[call.id]
       /\ call.op = "canUserGenerateMessage"
            => call.result = canUserGenerateMessage(storageVersion, dbStorage, call.id)

\* the messages request r has stored
Artifacts(r) == {m \in messages : m.req = r}

\* C20: a successful generation has stored exactly one message, and an
\* answered generation request has stored its message exactly when it has
\* consumed its usage unit.
ArtifactWithUsage ==
  \A r \in Reqs :
    (reqs[r].pc = "done" /\ reqs[r].route \in {"session", "tracked", "flow"})
      => /\ reqs[r].outcome = "ok" => Cardinality(Artifacts(r)) = 1
         /\ (Artifacts(r) # {}) <=> reqs[r].unit

\* the generation step of request r has returned a message
Generated(r) ==
  \/ reqs[r].pc \in {"create", "increment", "anonymous"}
  \/ reqs[r].pc = "done" /\ Artifacts(r) # {}

\* C21: a request consumes its usage unit only after its generation step has
\* succeeded; a request whose generation throws leaves the counter as it was.
UnitAfterGeneration ==
  \A r \in Reqs :
    /\ reqs[r].unit => Generated(r)
    /\ (reqs[r].pc = "done" /\ reqs[r].outcome = "error" /\ ~Generated(r))
         => /\ ~reqs[r].unit
            /\ reqs[r].uid = 0
                 => session[reqs[r].sess].anonymousMessagesUsed
                      = reqs[r].anonymousMessagesUsed

\* C22: the anonymous counter of a caller never decreases in any step.
AnonymousCounterMonotonic ==
  [][\A s \in Sess :
       session'[s].anonymousMessagesUsed >= session[s].anonymousMessagesUsed]_vars

\* C23: the account created by a caller whose anonymous allowance is used up
\* has plan trial, counter 0 and status active, and its entitlement decision
\* is the trial plan's for a fresh counter, whatever the anonymous counter.
RegisteredOnTrial ==
  \A r \in Reqs :
    (/\ reqs[r].route = "register" /\ reqs[r].outcome = "ok"
     /\ session[reqs[r].sess].anonymousMessagesUsed >= AnonymousLimit
     /\ lastWrite[reqs[r].uid].kind = "create")
      => LET u == reqs[r].uid IN
         /\ users[u].plan = "trial"
         /\ users[u].messagesUsedThisMonth = 0
         /\ users[u].subscriptionStatus = "active"
         /\ canUserGenerateMessage(storageVersion, users, u) = "true"

\* the step is an entitlement check or an account read through the facade
ReadStep ==
  call' # call /\ call'.op \in {"canUserGenerateMessage", "getUser"}

\* C24: an entitlement check leaves accounts, counters, artifacts and the
\* facade's useDatabase flag unchanged.
EntitlementReadsOnly ==
  [][ReadStep
       => /\ users' = users /\ dbStorage' = dbStorage
          /\ messages' = messages /\ currentUserId' = currentUserId
          /\ session' = session
          /\ useDatabase' = useDatabase]_vars

\* C24 as amended: an entitlement check leaves accounts, counters and
\* artifacts unchanged; useDatabase changes only from true to false, in a
\* check that the database failed and memStorage answered.
EntitlementReadsData ==
  [][ReadStep
       => /\ users' = users /\ dbStorage' = dbStorage
          /\ messages' = messages /\ currentUserId' = currentUserId
          /\ session' = session
          /\ useDatabase' # useDatabase
               => /\ useDatabase /\ call'.routed = "failover"
                  /\ storageVersion = 3]_vars

EntitlementReadWitness ==
  /\ call.op = "canUserGenerateMessage" /\ call.routed = "failover"
  /\ call.result = "true" /\ ~useDatabase /\ call.durable >= 1
  /\ \E u \in Uids : dbStorage[u].messagesUsedThisMonth >= 1

\* C25: no two accounts have the same username, and of the registration
\* requests that carried one username at most one was answered with success.
UsernamesUnique ==
  /\ \A i, j \in Uids :
       (i # j /\ Exists(users, i) /\ Exists(users, j))
         => users[i].username # users[j].username
  /\ \A r, q \in Reqs :
       (/\ r # q /\ reqs[r].route = "register" /\ reqs[q].route = "register"
        /\ reqs[r].name = reqs[q].name /\ reqs[r].outcome = "ok")
         => reqs[q].outcome # "ok"

\* the finished incrementMessageUsage calls of one account that a backend served
Increments(id, backends) ==
  {c \in Calls : /\ dbCalls[c].pc = "done"
                 /\ dbCalls[c].op = "incrementMessageUsage"
                 /\ dbCalls[c].id = id
                 /\ dbCalls[c].routed \in backends
                 /\ dbCalls[c].result = "ok"}

Quiescent == \A c \in Calls : dbCalls[c].pc \in {"idle", "done"}

\* C26: once the incrementMessageUsage calls of an account have all returned,
\* its counter has grown by the number of calls and the calls returned
\* pairwise distinct values, in DatabaseStorage (rows start at 0) and in
\* MemStorage (for the account of the constructor, while no createUser ran).
IncrementsNotLost ==
  Quiescent =>
    \A id \in Uids :
      /\ Exists(dbStorage, id) =>
           /\ dbStorage[id].messagesUsedThisMonth = Cardinality(Increments(id, {"db"}))
           /\ \A c, d \in Increments(id, {"db"}) : c # d => dbCalls[c].ret # dbCalls[d].ret
      /\ (Exists(users, id) /\ currentUserId = InitialUserId(storageVersion)) =>
           /\ users[id].messagesUsedThisMonth =
                createDemoUser(storageVersion).messagesUsedThisMonth
                + Cardinality(Increments(id, {"mem", "failover"}))
           /\ \A c, d \in Increments(id, {"mem", "failover"}) : c # d => dbCalls[c].ret # dbCalls[d].ret

\* C27: in version 3 no call made through the facade ends with the error of
\* the database: a call whose query rejected returns what memStorage returns.
InfrastructureErrorHidden ==
  \A c \in Calls : (storageVersion = 3 /\ dbCalls[c].pc = "done") => dbCalls[c].result # "throw"

\* C28: when the handler of a paid invoice for an existing account returns,
\* the account in the active backend (whose counter was above 0) shows the new
\* period end with status active and a counter of 0, or shows none of the three.
InvoicePaidAllOrNothing ==
  [][(hook.pc = "hreset" /\ hook'.pc = "idle") =>
       LET id     == hook.uid
           before == IF useDatabase' THEN dbStorage[id] ELSE users[id]
           after  == IF useDatabase' THEN dbStorage'[id] ELSE users'[id]
       IN (hook.from # "-" /\ before # NoUser /\ before.messagesUsedThisMonth >= 1) =>
            ((/\ after.currentPeriodEnd = hook.pe
              /\ after.subscriptionStatus = "active")
               <=> after.messagesUsedThisMonth = 0)]_vars

BillingWrites == {"checkout", "paidUpdate", "failed", "deleted"}

Accounts(us) == {u \in Uids : Exists(us, u)}

\* C30: a createUser call leaves every account that existed before it as it
\* was, the demo account of the constructor included, and adds one account.
CreateUserKeepsAccounts ==
  [][currentUserId' # currentUserId =>
       /\ \A u \in Accounts(users) : users'[u] = users[u]
       /\ Cardinality(Accounts(users')) = Cardinality(Accounts(users)) + 1]_vars

====
